---- MODULE Spec2Model ----
(***************************************************************************)
(* A model of the ECS150-FS flat filesystem library (libfs): mount,         *)
(* umount, info, ls, create, delete, open, close, stat, lseek, write, read *)
(* over a block device holding a superblock, a FAT, a root directory and a *)
(* data region.  Every API function is one action; the block device        *)
(* persists across unmounts and across restarts of the process.            *)
(*                                                                         *)
(* The table sizes of the program (4096-byte blocks, 2048 FAT entries per  *)
(* block, 128 directory slots, 32 descriptors, 16-byte names) are scaled   *)
(* down to the small values below; the code is translated with the names   *)
(* of the constants, so every comparison against a limit is kept.          *)
(***************************************************************************)
EXTENDS Integers, Sequences, FiniteSets, TLC

FAT_EOC == 65535

\* Scaled table sizes (the program's values are in the comments).
BLOCK_SIZE == 2
\* 4096 bytes per block
NUM_ENTRIES_FAT_BLK == 3
\* 2048 FAT entries per FAT block
FS_FILENAME_LEN == 2
\* 16 bytes per name, NUL included
FS_FILE_MAX_COUNT == 2
\* 128 root-directory slots
FS_OPEN_MAX_COUNT == 2
\* 32 descriptors

\* Bounds of the exploration.
MaxCalls == 6
\* the state-changing calls (and restarts) of one explored run
MaxDeepCalls == 9
\* the same for the runs with few arguments (SpecDeep)
MaxDataBlks == 4
\* the disks formatted in Init have 2..MaxDataBlks data blocks
GarbageSize == 1
\* a size read from before the start of root_directory shows as -1 or GarbageSize
NumBufs == 1
\* the distinct caller buffers handed to fs_write
MaxByte == 3
\* bits of an int (32 in the build)
IntBits == 8
\* bytes are 0..MaxByte

Min(a, b) == IF a < b THEN a ELSE b
CeilDiv(a, b) == (a + b - 1) \div b

Byte == 0..MaxByte
\* the largest count / offset argument: two blocks and one byte
MaxCount == 2 * BLOCK_SIZE + 1

\* Byte i (from 0) of caller buffer number s.
BufByte(s, i) == ((i + s) % MaxByte) + 1
Buf(s, count) == [i \in 1..count |-> BufByte(s, i - 1)]

\* ---------------------------------------------------------------- names
\* A file name argument is the C string (the bytes before the first NUL); a
\* string of FS_FILENAME_LEN bytes has no NUL within the first FS_FILENAME_LEN.
Chars == 1..(FS_FILE_MAX_COUNT + 1)
LongName == [i \in 1..FS_FILENAME_LEN |-> 1]
Names == {<<>>} \cup {<<c>> : c \in Chars} \cup {LongName}

is_invalid_file(filename) == Len(filename) >= FS_FILENAME_LEN

\* The filename field of a directory entry: FS_FILENAME_LEN bytes, 0 is NUL.
RECURSIVE CStr(_, _)
CStr(arr, i) ==
  IF i > Len(arr) \/ arr[i] = 0 THEN <<>> ELSE <<arr[i]>> \o CStr(arr, i + 1)
\* strcmp(filename, entry.filename) == 0
StrEq(filename, arr) == filename = CStr(arr, 1)
\* the loop of fs_create that copies the name and its terminating NUL
StoreName(arr, filename) ==
  [i \in 1..FS_FILENAME_LEN |->
     IF i <= Len(filename) THEN filename[i]
     ELSE IF i = Len(filename) + 1 THEN 0 ELSE arr[i]]

\* ---------------------------------------------------------------- state
VARIABLES
  disk,                 \* the block device file: [sb, fat, root, data]
  disk_open,            \* the disk the block layer holds open: "", "disk", "bad"
  superblock,           \* in-memory superblock
  fat,                  \* in-memory FAT: fat[c][d], c in 0..F-1, d in 0..N-1; <<>> is NULL
  root_directory,       \* root_directory[0..FS_FILE_MAX_COUNT-1]
  FD,                   \* FD[0..FS_OPEN_MAX_COUNT-1]
  num_open_fds,
  fs_mounted,
  num_files_root_dir,
  num_avail_data_blks,
  fault,                \* "none", or the undefined behaviour / hang the process ran into
  last,                 \* the last API call that changed the state above:
                        \* its arguments, return value and output
  left                  \* how many more state-changing calls are explored

vars == <<disk, disk_open, superblock, fat, root_directory, FD, num_open_fds,
          fs_mounted, num_files_root_dir, num_avail_data_blks, fault, last, left>>

core == <<disk, disk_open, superblock, fat, root_directory, FD, num_open_fds,
          fs_mounted, num_files_root_dir, num_avail_data_blks, fault>>

mem == <<superblock, fat, root_directory, FD, num_open_fds, fs_mounted,
         num_files_root_dir, num_avail_data_blks>>

clean_superblock ==
  [signature |-> "", tot_amt_blks |-> 0, root_dir_blk_idx |-> 0,
   data_blk_start_idx |-> 0, amt_data_blks |-> 0, num_blks_fat |-> 0]
clean_root_dir_entry ==
  [filename |-> [i \in 1..FS_FILENAME_LEN |-> 0], size_file |-> 0,
   idx_first_data_blk |-> 0]
empty_FD == [idx_file_root_dir |-> -1, file_descriptor |-> 0, file_offset |-> 0]
\* a static array before any mount: all bytes zero
zero_FD == [idx_file_root_dir |-> 0, file_descriptor |-> 0, file_offset |-> 0]
CLEAN_FAT == <<>>

DirSlots == 0..(FS_FILE_MAX_COUNT - 1)
FdSlots == 0..(FS_OPEN_MAX_COUNT - 1)

\* ------------------------------------------------------- the block device
\* A disk as the formatter leaves it: D data blocks, F FAT blocks, FAT entry 0
\* FAT_EOC, every other byte zero.
FormattedSuperblock(D) ==
  LET F == CeilDiv(D, NUM_ENTRIES_FAT_BLK) IN
  [signature |-> "ECS150FS", tot_amt_blks |-> 1 + F + 1 + D,
   root_dir_blk_idx |-> 1 + F, data_blk_start_idx |-> 1 + F + 1,
   amt_data_blks |-> D, num_blks_fat |-> F]
FormattedDisk(D) ==
  LET sb == FormattedSuperblock(D) IN
  [sb |-> sb,
   fat |-> [c \in 0..(sb.num_blks_fat - 1) |->
             [d \in 0..(NUM_ENTRIES_FAT_BLK - 1) |->
                IF c = 0 /\ d = 0 THEN FAT_EOC ELSE 0]],
   root |-> [x \in DirSlots |-> clean_root_dir_entry],
   data |-> [b \in sb.data_blk_start_idx..(sb.tot_amt_blks - 1) |->
               [i \in 1..BLOCK_SIZE |-> 0]]]
\* the superblock of a file that is no ECS150-FS image
BadSuperblock == [clean_superblock EXCEPT !.signature = "NOTANFS", !.tot_amt_blks = 1]

DiskNames == {"disk", "bad", "missing"}
block_disk_open_ok(diskname) == disk_open = "" /\ diskname # "missing"
block_disk_count == IF disk_open = "" THEN -1
                    ELSE IF disk_open = "bad" THEN 1 ELSE disk.sb.tot_amt_blks
\* block_read / block_write succeed only inside the device
InDevice(blk) == disk_open = "disk" /\ blk >= 0 /\ blk < disk.sb.tot_amt_blks

\* ------------------------------------------------------------- the FAT
FatAt(f, v) == f[v \div NUM_ENTRIES_FAT_BLK][v % NUM_ENTRIES_FAT_BLK]
FatSet(f, v, val) ==
  [f EXCEPT ![v \div NUM_ENTRIES_FAT_BLK][v % NUM_ENTRIES_FAT_BLK] = val]
FatSize(f) == Cardinality(DOMAIN f) * NUM_ENTRIES_FAT_BLK

\* The chain walk of fs_write / fs_read: the FAT indices visited from j until
\* an entry holds FAT_EOC.  A walk longer than the FAT has entered a cycle.
RECURSIVE ChainFrom(_, _, _)
ChainFrom(f, cur, n) ==
  IF n = 0 THEN <<>>
  ELSE IF FatAt(f, cur) = FAT_EOC THEN <<cur>>
  ELSE <<cur>> \o ChainFrom(f, FatAt(f, cur), n - 1)
Chain(f, j) == IF j = FAT_EOC THEN <<>> ELSE ChainFrom(f, j, FatSize(f) + 1)
ChainLoops(f, j) == Len(Chain(f, j)) > FatSize(f)

\* ---------------------------------------------------------------- calls
NoCall == [op |-> "none", name |-> <<>>, fd |-> 0, count |-> 0, seed |-> 0,
           ret |-> 0, out |-> <<>>]
Call(op, name, fd, count, seed, ret, out) ==
  [op |-> op, name |-> name, fd |-> fd, count |-> count, seed |-> seed,
   ret |-> ret, out |-> out]

Init ==
  /\ \E D \in 2..MaxDataBlks : disk = FormattedDisk(D)
  /\ disk_open = ""
  /\ superblock = clean_superblock
  /\ fat = CLEAN_FAT
  /\ root_directory = [x \in DirSlots |-> clean_root_dir_entry]
  /\ FD = [i \in FdSlots |-> zero_FD]
  /\ num_open_fds = 0
  /\ fs_mounted = 0
  /\ num_files_root_dir = 0
  /\ num_avail_data_blks = 0
  /\ fault = "none"
  /\ last = NoCall
  /\ left = MaxCalls

\* A call that changes the state records itself in last; a call that changes
\* nothing leaves last alone, and what it returns is the value of its result
\* operator (MountRet, CreateRefused, StatValue, ReadResult, ...) in that state.
\* A process that ran into undefined behaviour, or hangs in a loop, makes no
\* further call.
Record(c) == /\ last' = IF core' = core THEN last ELSE c
             /\ left' = IF core' = core THEN left ELSE left - 1
Alive == fault = "none" /\ left > 0
Faulted(what, c) == /\ fault' = what
                    /\ last' = c
                    /\ left' = left - 1
                    /\ UNCHANGED <<disk, disk_open, mem>>

\* ---------------------------------------------------------------- mount
MountRet(diskname) ==
  IF block_disk_open_ok(diskname) /\ diskname = "disk" THEN 0 ELSE -1

fs_mount(diskname) ==
  /\ Alive
  /\ IF ~block_disk_open_ok(diskname)
     THEN UNCHANGED vars
     ELSE IF diskname = "bad"
     THEN \* the superblock is read, the signature differs: the disk stays open
          /\ disk_open' = "bad"
          /\ superblock' = BadSuperblock
          /\ UNCHANGED <<disk, fat, root_directory, FD, num_open_fds, fs_mounted,
                         num_files_root_dir, num_avail_data_blks, fault>>
          /\ Record(Call("mount", <<>>, 0, 0, 0, -1, diskname))
     ELSE /\ disk_open' = "disk"
          /\ superblock' = disk.sb
          /\ fat' = disk.fat
          /\ root_directory' = disk.root
          /\ FD' = [j \in FdSlots |-> empty_FD]
          /\ fs_mounted' = 1
          /\ num_avail_data_blks' = disk.sb.amt_data_blks - 1
          /\ UNCHANGED <<disk, num_open_fds, num_files_root_dir, fault>>
          /\ Record(Call("mount", <<>>, 0, 0, 0, 0, diskname))

UmountRefused == fs_mounted = 0 \/ num_open_fds > 0 \/ disk_open = ""

fs_umount ==
  /\ Alive
  /\ IF UmountRefused
     THEN UNCHANGED vars
     ELSE /\ disk_open' = ""
          /\ superblock' = clean_superblock
          /\ fat' = CLEAN_FAT
          /\ root_directory' = [x \in DirSlots |-> clean_root_dir_entry]
          /\ FD' = [j \in FdSlots |-> empty_FD]
          /\ fs_mounted' = 0
          /\ num_avail_data_blks' = 0
          /\ UNCHANGED <<disk, num_open_fds, num_files_root_dir, fault>>
          /\ Record(Call("umount", <<>>, 0, 0, 0, 0, <<>>))

\* The process ends and a new one starts: the statics are zero again, the
\* disk file keeps what block_write put there.
Restart ==
  /\ left > 0
  /\ left' = left - 1
  /\ disk_open' = ""
  /\ superblock' = clean_superblock
  /\ fat' = CLEAN_FAT
  /\ root_directory' = [x \in DirSlots |-> clean_root_dir_entry]
  /\ FD' = [i \in FdSlots |-> zero_FD]
  /\ num_open_fds' = 0
  /\ fs_mounted' = 0
  /\ num_files_root_dir' = 0
  /\ num_avail_data_blks' = 0
  /\ fault' = "none"
  /\ last' = NoCall
  /\ UNCHANGED disk

\* ----------------------------------------------------------- info, ls
\* free FAT entries among the first amt_data_blks (entry 0 included in the scan)
InfoFatFree ==
  Cardinality({v \in 0..(superblock.amt_data_blks - 1) :
                 v < FatSize(fat) /\ FatAt(fat, v) = 0})
InfoRdirFree ==
  Cardinality({x \in DirSlots : root_directory[x].filename[1] = 0})
InfoRet == IF block_disk_count < 0 THEN -1 ELSE 0
InfoOut ==
  <<superblock.tot_amt_blks, superblock.num_blks_fat, 1 + superblock.num_blks_fat,
    1 + superblock.num_blks_fat + 1, superblock.amt_data_blks,
    InfoFatFree, superblock.amt_data_blks, InfoRdirFree, FS_FILE_MAX_COUNT>>

fs_info == Alive /\ InfoRet \in {-1, 0} /\ UNCHANGED vars

RECURSIVE LsFrom(_, _)
LsFrom(rd, x) ==
  IF x >= FS_FILE_MAX_COUNT THEN <<>>
  ELSE (IF rd[x].filename[1] # 0
        THEN << <<CStr(rd[x].filename, 1), rd[x].size_file, rd[x].idx_first_data_blk>> >>
        ELSE <<>>) \o LsFrom(rd, x + 1)
LsRet == IF fs_mounted = 0 THEN -1 ELSE 0
LsOut == LsFrom(root_directory, 0)

fs_ls == Alive /\ LsRet \in {-1, 0} /\ UNCHANGED vars

\* ------------------------------------------------------- create, delete
\* the first slot whose name equals filename, FS_FILE_MAX_COUNT when none
FindFile(filename) ==
  LET hits == {x \in DirSlots : StrEq(filename, root_directory[x].filename)} IN
  IF hits = {} THEN FS_FILE_MAX_COUNT ELSE CHOOSE x \in hits : \A y \in hits : x <= y
\* the first slot whose name is empty, FS_FILE_MAX_COUNT when none
FirstEmptyEntry ==
  LET hits == {x \in DirSlots : root_directory[x].filename[1] = 0} IN
  IF hits = {} THEN FS_FILE_MAX_COUNT ELSE CHOOSE x \in hits : \A y \in hits : x <= y

CreateRefused(filename) ==
  \/ fs_mounted = 0
  \/ num_files_root_dir >= FS_FILE_MAX_COUNT
  \/ is_invalid_file(filename)
  \/ FindFile(filename) < FS_FILE_MAX_COUNT

fs_create(filename) ==
  /\ Alive
  /\ IF CreateRefused(filename)
     THEN UNCHANGED vars
     ELSE LET entry == FirstEmptyEntry IN
          IF entry >= FS_FILE_MAX_COUNT
          THEN \* root_directory[FS_FILE_MAX_COUNT] is written: past the array
               Faulted("root_directory overrun",
                       Call("create", filename, 0, 0, 0, 0, <<>>))
          ELSE /\ root_directory' =
                    [root_directory EXCEPT ![entry] =
                       [filename |-> StoreName(@.filename, filename),
                        size_file |-> 0, idx_first_data_blk |-> FAT_EOC]]
               /\ num_files_root_dir' = num_files_root_dir + 1
               /\ disk' = [disk EXCEPT !.root = root_directory']
               /\ UNCHANGED <<disk_open, superblock, fat, FD, num_open_fds,
                              fs_mounted, num_avail_data_blks, fault>>
               /\ Record(Call("create", filename, 0, 0, 0, 0, <<>>))

\* The loop of fs_delete that frees a chain: every entry before the last
\* is zeroed and counted, the last one is zeroed.
RECURSIVE FreeChain(_, _, _, _)
FreeChain(f, cur, avail, n) ==
  IF n = 0 THEN [fat |-> f, avail |-> avail, hang |-> TRUE]
  ELSE IF FatAt(f, cur) = FAT_EOC
       THEN [fat |-> FatSet(f, cur, 0), avail |-> avail, hang |-> FALSE]
       ELSE FreeChain(FatSet(f, cur, 0), FatAt(f, cur), avail + 1, n - 1)

DeleteRefused(filename) ==
  \/ fs_mounted = 0
  \/ is_invalid_file(filename)
  \/ FindFile(filename) >= FS_FILE_MAX_COUNT
  \/ \E i \in FdSlots : FD[i].idx_file_root_dir = FindFile(filename)

fs_delete(filename) ==
  /\ Alive
  /\ IF DeleteRefused(filename)
     THEN UNCHANGED vars
     ELSE LET x == FindFile(filename)
              first == root_directory[x].idx_first_data_blk
              freed == IF first # FAT_EOC
                       THEN FreeChain(fat, first, num_avail_data_blks, FatSize(fat) + 2)
                       ELSE [fat |-> fat, avail |-> num_avail_data_blks, hang |-> FALSE]
          IN
          IF freed.hang
          THEN Faulted("fs_delete never returns",
                       Call("delete", filename, 0, 0, 0, 0, <<>>))
          ELSE /\ fat' = freed.fat
               /\ num_avail_data_blks' = freed.avail
               /\ root_directory' =
                    [root_directory EXCEPT ![x] =
                       [filename |-> [@.filename EXCEPT ![1] = 0],
                        size_file |-> 0, idx_first_data_blk |-> FAT_EOC]]
               /\ disk' = [disk EXCEPT !.fat = fat', !.root = root_directory']
               /\ UNCHANGED <<disk_open, superblock, FD, num_open_fds, fs_mounted,
                              num_files_root_dir, fault>>
               /\ Record(Call("delete", filename, 0, 0, 0, 0, <<>>))

\* --------------------------------------------------- the handle table
\* the first slot whose descriptor field equals fd, FS_OPEN_MAX_COUNT when none
FindFd(fd) ==
  LET hits == {i \in FdSlots : FD[i].file_descriptor = fd} IN
  IF hits = {} THEN FS_OPEN_MAX_COUNT ELSE CHOOSE i \in hits : \A k \in hits : i <= k

\* the values a read before the start of root_directory can show as a size
Garbage == {-1, GarbageSize}

OpenRefused(filename) ==
  \/ fs_mounted = 0
  \/ num_open_fds >= FS_OPEN_MAX_COUNT
  \/ is_invalid_file(filename)
  \/ FindFile(filename) >= FS_FILE_MAX_COUNT

fs_open(filename) ==
  /\ Alive
  /\ IF OpenRefused(filename)
     THEN UNCHANGED vars
     ELSE LET fd_idx == FindFd(0) IN
          IF fd_idx >= FS_OPEN_MAX_COUNT
          THEN \* the scan for a free slot runs past FD[FS_OPEN_MAX_COUNT - 1]
               Faulted("FD overrun", Call("open", filename, 0, 0, 0, 0, <<>>))
          ELSE /\ FD' = [FD EXCEPT ![fd_idx] =
                           [idx_file_root_dir |-> FindFile(filename),
                            file_descriptor |-> fd_idx + 1, file_offset |-> 0]]
               /\ num_open_fds' = num_open_fds + 1
               /\ UNCHANGED <<disk, disk_open, superblock, fat, root_directory,
                              fs_mounted, num_files_root_dir, num_avail_data_blks,
                              fault>>
               /\ Record(Call("open", filename, 0, 0, 0, fd_idx + 1, <<>>))

FdRefused(fd) ==
  \/ fs_mounted = 0
  \/ fd > FS_OPEN_MAX_COUNT
  \/ FindFd(fd) >= FS_OPEN_MAX_COUNT

fs_close(fd) ==
  /\ Alive
  /\ IF FdRefused(fd)
     THEN UNCHANGED vars
     ELSE /\ FD' = [FD EXCEPT ![FindFd(fd)] = empty_FD]
          /\ num_open_fds' = num_open_fds - 1
          /\ UNCHANGED <<disk, disk_open, superblock, fat, root_directory,
                         fs_mounted, num_files_root_dir, num_avail_data_blks, fault>>
          /\ Record(Call("close", <<>>, fd, 0, 0, 0, <<>>))

\* The value fs_stat returns; g is what root_directory[-1].size_file shows
\* when the slot found is a closed one (fd = 0).
StatValue(fd, g) ==
  IF FdRefused(fd) THEN -1
  ELSE LET x == FD[FindFd(fd)].idx_file_root_dir IN
       IF x \in DirSlots THEN root_directory[x].size_file ELSE g

fs_stat(fd) ==
  /\ Alive
  /\ \E g \in Garbage : StatValue(fd, g) >= -1
  /\ UNCHANGED vars

\* (int)offset: the low IntBits bits of the size_t argument, read as a signed
\* number
ToInt(offset) ==
  LET low == offset % (2^IntBits) IN
  IF low >= 2^(IntBits - 1) THEN low - 2^IntBits ELSE low

LseekRefused(fd, offset, g) ==
  LET size_file == StatValue(fd, g) IN size_file = -1 \/ ToInt(offset) > size_file

fs_lseek(fd, offset) ==
  /\ Alive
  /\ \E g \in Garbage :
       IF LseekRefused(fd, offset, g)
       THEN UNCHANGED vars
       ELSE /\ FD' = [FD EXCEPT ![FindFd(fd)].file_offset = offset]
            /\ UNCHANGED <<disk, disk_open, superblock, fat, root_directory,
                           num_open_fds, fs_mounted, num_files_root_dir,
                           num_avail_data_blks, fault>>
            /\ Record(Call("lseek", <<>>, fd, offset, 0, 0, <<>>))

\* ------------------------------------------------------- write, read
\* size_file - offset in unsigned arithmetic: a negative difference wraps to a
\* value above every count (2^30 stands for the wrapped value)
UDiff(a, b) == IF a >= b THEN a - b ELSE 2^30 + (a - b)

\* what block_read leaves in a block-sized buffer: the block, or the bytes g the
\* buffer held when the block lies outside the device
BlockRead(blk, g) ==
  IF InDevice(blk) THEN disk.data[blk] ELSE [i \in 1..BLOCK_SIZE |-> g]
RECURSIVE ReadBlocks(_, _)
ReadBlocks(chain, g) ==
  IF chain = <<>> THEN <<>>
  ELSE BlockRead(superblock.data_blk_start_idx + Head(chain), g)
         \o ReadBlocks(Tail(chain), g)

\* memcpy(&arr[at], buf + from, n) for caller buffer number seed
Overlay(arr, at, seed, from, n) ==
  [p \in 1..Len(arr) |->
     IF p > at /\ p <= at + n THEN BufByte(seed, from + (p - at - 1)) ELSE arr[p]]

\* the first FAT entry equal to 0 that the allocation scan of fs_write visits:
\* the scan leaves its outer loop after FAT block 0; -1 when it finds none
FirstFreeEntry(f) ==
  LET hits == {d \in 0..(NUM_ENTRIES_FAT_BLK - 1) : f[0][d] = 0} IN
  IF hits = {} THEN -1 ELSE CHOOSE d \in hits : \A e \in hits : d <= e

\* The outer loop of fs_write.  w holds the locals: z, the chain (file_blocks
\* without data_blk_start_idx), file_blocks_array, and the FAT, size_file,
\* idx_first_data_blk and num_avail_data_blks as the loop changes them.
RECURSIVE WriteLoop(_, _, _, _, _)
WriteLoop(w, offset, count, seed, g) ==
  IF w.z >= count THEN w
  ELSE
    LET counter == Len(w.chain)
        room == IF counter # 0 /\ w.z + offset < counter * BLOCK_SIZE
                THEN Min(count - w.z, counter * BLOCK_SIZE - (w.z + offset))
                ELSE 0
        w1 == [w EXCEPT !.arr = Overlay(@, w.z + offset, seed, w.z, room),
                        !.z = @ + room, !.size = @ + room]
    IN
    IF w1.z >= count THEN w1
    ELSE IF w1.avail = 0 THEN w1
    ELSE
      LET v == w1.first
          looped == v # FAT_EOC /\ ChainLoops(w1.fat, v)
          new == FirstFreeEntry(w1.fat)
      IN
      IF looped \/ new = -1
      THEN [w1 EXCEPT !.status = "fs_write never returns"]
      ELSE IF counter >= superblock.amt_data_blks
      THEN [w1 EXCEPT !.status = "file_blocks overrun"]
      ELSE
        LET walk == Chain(w1.fat, v)
            linked == IF v # FAT_EOC THEN FatSet(w1.fat, walk[Len(walk)], new)
                      ELSE w1.fat
        IN
        WriteLoop([w1 EXCEPT
                     !.fat = FatSet(linked, new, FAT_EOC),
                     !.first = IF v = FAT_EOC THEN new ELSE v,
                     !.chain = Append(@, new),
                     !.arr = @ \o BlockRead(superblock.data_blk_start_idx + new, g),
                     !.avail = @ - 1],
                  offset, count, seed, g)

\* the data region after the block_write loop at the end of fs_write
WriteBack(data, chain, arr) ==
  [blk \in DOMAIN data |->
     LET ls == {l \in 1..Len(chain) :
                  superblock.data_blk_start_idx + chain[l] = blk} IN
     IF ls = {} THEN data[blk]
     ELSE LET l == CHOOSE m \in ls : \A k \in ls : m >= k IN
          [i \in 1..BLOCK_SIZE |-> arr[(l - 1) * BLOCK_SIZE + i]]]

WriteRefused(fd, seed) == FdRefused(fd) \/ seed = 0

\* fs_write(fd, buf, count): seed names the buffer (0 is NULL), g is the byte
\* uninitialised memory shows.  status is "ok" (the call returned ret) or the
\* undefined behaviour / endless loop it ran into.
WriteResult(fd, seed, count, g) ==
  LET none == [status |-> "refused", ret |-> -1] IN
  IF WriteRefused(fd, seed) THEN none
  ELSE
    LET i == FindFd(fd)
        x == FD[i].idx_file_root_dir
    IN
    IF x \notin DirSlots THEN [status |-> "root_directory underrun", ret |-> 0]
    ELSE
      LET j == root_directory[x].idx_first_data_blk
          chain == Chain(fat, j)
          counter == Len(chain)
          offset == FD[i].file_offset
          size_file == root_directory[x].size_file
          actual_count == Min(count, UDiff(size_file, offset))
      IN
      IF counter >= superblock.amt_data_blks
      THEN [status |-> "file_blocks overrun", ret |-> 0]
      ELSE IF actual_count > 0 /\ offset + actual_count > counter * BLOCK_SIZE
      THEN [status |-> "file_blocks_array overrun", ret |-> 0]
      ELSE
        LET arr0 == ReadBlocks(chain, g)
            w0 == [z |-> actual_count, chain |-> chain,
                   arr |-> Overlay(arr0, offset, seed, 0, actual_count),
                   fat |-> fat, size |-> size_file, first |-> j,
                   avail |-> num_avail_data_blks, status |-> "ok"]
            w == WriteLoop(w0, offset, count, seed, g)
        IN
        IF w.status # "ok" THEN [status |-> w.status, ret |-> 0]
        ELSE IF Len(w.chain) >= superblock.amt_data_blks
        THEN [status |-> "file_blocks overrun", ret |-> 0]
        ELSE [status |-> "ok", ret |-> w.z, x |-> x,
              fat |-> w.fat, size |-> w.size, first |-> w.first,
              avail |-> w.avail, chain |-> w.chain, arr |-> w.arr,
              data |-> WriteBack(disk.data, w.chain, w.arr)]

\* Two variants of OffsetAfterWrite that differ from the source: the cursor
\* advanced by the bytes written, and the return value stored in the cursor.
OffsetAfterWriteAdvanced(file_offset, z) == file_offset + z
OffsetAfterWriteStored(file_offset, z) == z

\* FD[i].file_offset after fs_write returned z: the offset is copied into a
\* local and never stored back
OffsetAfterWrite(file_offset, z) == file_offset

fs_write(fd, seed, count) ==
  /\ Alive
  /\ \E g \in {0} :  \* no byte of uninitialised memory reaches the disk
       LET r == WriteResult(fd, seed, count, g)
           c == Call("write", <<>>, fd, count, seed, r.ret, <<>>)
       IN
       IF r.status = "refused" THEN UNCHANGED vars
       ELSE IF r.status # "ok" THEN Faulted(r.status, c)
       ELSE /\ fat' = r.fat
            /\ root_directory' = [root_directory EXCEPT
                                    ![r.x].size_file = r.size,
                                    ![r.x].idx_first_data_blk = r.first]
            /\ num_avail_data_blks' = r.avail
            /\ disk' = [disk EXCEPT !.data = r.data, !.root = root_directory',
                                    !.fat = fat']
            /\ FD' = [FD EXCEPT ![FindFd(fd)].file_offset = OffsetAfterWrite(@, r.ret)]
            /\ UNCHANGED <<disk_open, superblock, num_open_fds, fs_mounted,
                           num_files_root_dir, fault>>
            /\ Record(c)

\* fs_read(fd, buf, count): hasbuf is FALSE for a NULL buffer.
ReadResult(fd, hasbuf, count, g) ==
  IF FdRefused(fd) \/ ~hasbuf THEN [status |-> "refused", ret |-> -1, out |-> <<>>]
  ELSE
    LET i == FindFd(fd)
        x == FD[i].idx_file_root_dir
    IN
    IF x \notin DirSlots
    THEN [status |-> "root_directory underrun", ret |-> 0, out |-> <<>>]
    ELSE
      LET j == root_directory[x].idx_first_data_blk
          chain == Chain(fat, j)
          counter == Len(chain)
          offset == FD[i].file_offset
          actual_count == Min(count, UDiff(root_directory[x].size_file, offset))
      IN
      IF j = FAT_EOC THEN [status |-> "ok", ret |-> 0, out |-> <<>>]
      ELSE IF counter >= superblock.amt_data_blks
      THEN [status |-> "file_blocks overrun", ret |-> 0, out |-> <<>>]
      ELSE IF actual_count > 0 /\ offset + actual_count > counter * BLOCK_SIZE
      THEN [status |-> "file_blocks_array overrun", ret |-> 0, out |-> <<>>]
      ELSE [status |-> "ok", ret |-> actual_count,
            out |-> SubSeq(ReadBlocks(chain, g), offset + 1, offset + actual_count)]

\* the bytes uninitialised memory can show matter only when a block of the
\* chain lies outside the device
ReadGarbage(fd) ==
  IF FdRefused(fd) \/ FD[FindFd(fd)].idx_file_root_dir \notin DirSlots THEN {0}
  ELSE LET chain == Chain(fat, root_directory[FD[FindFd(fd)].idx_file_root_dir]
                                  .idx_first_data_blk) IN
       IF \A l \in 1..Len(chain) : InDevice(superblock.data_blk_start_idx + chain[l])
       THEN {0} ELSE Byte

fs_read(fd, hasbuf, count) ==
  /\ Alive
  /\ \E g \in ReadGarbage(fd) :
       LET r == ReadResult(fd, hasbuf, count, g)
           c == Call("read", <<>>, fd, count, 0, r.ret, r.out)
       IN
       IF r.status = "refused" THEN UNCHANGED vars
       ELSE IF r.status # "ok" THEN Faulted(r.status, c)
       ELSE /\ FD' = [FD EXCEPT ![FindFd(fd)].file_offset = @ + r.ret]
            /\ UNCHANGED <<disk, disk_open, superblock, fat, root_directory,
                           num_open_fds, fs_mounted, num_files_root_dir,
                           num_avail_data_blks, fault>>
            /\ Record(c)

FdArgs == (-1)..(FS_OPEN_MAX_COUNT + 1)

Next ==
  \/ \E diskname \in DiskNames : fs_mount(diskname)
  \/ fs_umount
  \/ fs_info
  \/ fs_ls
  \/ \E filename \in Names : fs_create(filename)
  \/ \E filename \in Names : fs_delete(filename)
  \/ \E filename \in Names : fs_open(filename)
  \/ \E fd \in FdArgs : fs_close(fd)
  \/ \E fd \in FdArgs : fs_stat(fd)
  \/ \E fd \in FdArgs, offset \in 0..MaxCount : fs_lseek(fd, offset)
  \/ \E fd \in FdArgs, seed \in 0..NumBufs, count \in 0..MaxCount :
       fs_write(fd, seed, count)
  \/ \E fd \in FdArgs, hasbuf \in BOOLEAN, count \in 0..MaxCount :
       fs_read(fd, hasbuf, count)
  \/ Restart

Spec == Init /\ [][Next]_vars

\* Longer runs over few arguments: the smallest disk, two names and the empty
\* name, the first descriptor and 0, one byte or one byte more than a block.
DeepNames == {<<>>, <<1>>, <<2>>}
DeepFds == {0, 1}
DeepCounts == {1, BLOCK_SIZE + 1}

InitDeep ==
  /\ disk = FormattedDisk(2)
  /\ disk_open = ""
  /\ superblock = clean_superblock
  /\ fat = CLEAN_FAT
  /\ root_directory = [x \in DirSlots |-> clean_root_dir_entry]
  /\ FD = [i \in FdSlots |-> zero_FD]
  /\ num_open_fds = 0
  /\ fs_mounted = 0
  /\ num_files_root_dir = 0
  /\ num_avail_data_blks = 0
  /\ fault = "none"
  /\ last = NoCall
  /\ left = MaxDeepCalls

NextDeep ==
  \/ fs_mount("disk")
  \/ fs_umount
  \/ fs_info
  \/ fs_ls
  \/ \E filename \in DeepNames : fs_create(filename)
  \/ \E filename \in DeepNames : fs_delete(filename)
  \/ \E filename \in DeepNames : fs_open(filename)
  \/ \E fd \in DeepFds : fs_close(fd)
  \/ \E fd \in DeepFds : fs_stat(fd)
  \/ \E fd \in DeepFds, offset \in DeepCounts : fs_lseek(fd, offset)
  \/ \E fd \in DeepFds, count \in DeepCounts : fs_write(fd, 1, count)
  \/ \E fd \in DeepFds, count \in DeepCounts : fs_read(fd, TRUE, count)
  \/ Restart

SpecDeep == InitDeep /\ [][NextDeep]_vars
\* ====================================================================
\* The claims.  A call that returns -1 without touching the state is a
\* stuttering step: its return value is the value of the result operator
\* of the call in that state.
\* ====================================================================
\* the step is a call of op that changed the state (calls that change nothing
\* are stuttering steps)
Step(op) == left' < left /\ last'.op = op
IsOpenFd(fd) == fd # 0 /\ \E i \in FdSlots : FD[i].file_descriptor = fd
SomeHandleOpen == \E i \in FdSlots : FD[i].file_descriptor # 0
Running == fault = "none" /\ fs_mounted = 1
Occupied(x) == root_directory[x].filename[1] # 0
ValidNames == {n \in Names : Len(n) >= 1 /\ ~is_invalid_file(n)}
\* free_count of the specification: FAT entries equal to 0 in [1, amt_data_blks)
FreeCount ==
  Cardinality({v \in 1..(superblock.amt_data_blks - 1) : FatAt(fat, v) = 0})
\* fd is an open handle at offset 0 on an occupied slot holding an empty file
EmptyFileHandle(fd) ==
  /\ Running
  /\ IsOpenFd(fd)
  /\ LET x == FD[FindFd(fd)].idx_file_root_dir IN
       /\ x \in DirSlots
       /\ Occupied(x)
       /\ root_directory[x].size_file = 0
       /\ root_directory[x].idx_first_data_blk = FAT_EOC
  /\ FD[FindFd(fd)].file_offset = 0

\* C1 -- round trip: on an empty file, fs_write(fd, buf, k) then fs_read(fd,
\* out, k) through the same handle return k both times and out equals buf.
\* Stated for the k the free data blocks can hold.
C1_RoundTrip ==
  [][\A fd \in 1..FS_OPEN_MAX_COUNT, seed \in 1..NumBufs, k \in 1..MaxCount :
       (EmptyFileHandle(fd) /\ k <= FreeCount * BLOCK_SIZE)
         => /\ WriteResult(fd, seed, k, 0).status = "ok"
            /\ WriteResult(fd, seed, k, 0).ret = k
            /\ (Step("write") /\ fs_write(fd, seed, k))
                 => \A g \in Byte :
                      /\ ReadResult(fd, TRUE, k, g)'.status = "ok"
                      /\ ReadResult(fd, TRUE, k, g)'.ret = k
                      /\ ReadResult(fd, TRUE, k, g)'.out = Buf(seed, k)]_vars

\* C2 -- fs_umount returns -1 (and changes nothing) whenever a handle-table
\* slot is open; it succeeds only when no handle is open.
C2_UmountNeedsNoHandles ==
  (Running /\ SomeHandleOpen) => UmountRefused

\* C3 -- fs_delete(name) returns -1 and changes nothing while an open handle
\* is on the file; once no handle is on it fs_delete(name) returns 0 and a
\* following fs_open(name) returns -1.
HandleOn(x) == \E i \in FdSlots : FD[i].file_descriptor # 0 /\ FD[i].idx_file_root_dir = x
C3_DeleteWhileOpen ==
  [][\A name \in ValidNames :
       (Running /\ FindFile(name) < FS_FILE_MAX_COUNT)
         => IF HandleOn(FindFile(name))
            THEN DeleteRefused(name)
            ELSE /\ ~DeleteRefused(name)
                 /\ (Step("delete") /\ fs_delete(name))
                      => /\ fault' = "none"
                         /\ last'.op = "delete" /\ last'.ret = 0
                         /\ OpenRefused(name)']_vars

\* C4 -- for every fd that is not the descriptor of an open handle, fs_close,
\* fs_stat, fs_lseek, fs_read and fs_write return -1 and change no state.
C4_BadFd ==
  fault = "none" =>
    \A fd \in FdArgs :
      ~IsOpenFd(fd) =>
        /\ FdRefused(fd)
        /\ \A g \in Garbage : StatValue(fd, g) = -1
        /\ \A g \in Garbage, offset \in 0..MaxCount : LseekRefused(fd, offset, g)
        /\ \A count \in 0..MaxCount : ReadResult(fd, TRUE, count, 0).status = "refused"
        /\ \A count \in 0..MaxCount, seed \in 1..NumBufs :
             WriteResult(fd, seed, count, 0).status = "refused"

\* C5 -- when fs_delete(name) has returned 0, the next fs_create(name) returns
\* 0 and the new entry has size_file 0 and idx_first_data_blk FAT_EOC.
C5_DeleteThenCreate ==
  [][(fault = "none" /\ last.op = "delete" /\ last.ret = 0 /\ last.name \in ValidNames)
       => /\ ~CreateRefused(last.name)
          /\ (Step("create") /\ fs_create(last.name))
               => /\ fault' = "none"
                  /\ FindFile(last.name)' < FS_FILE_MAX_COUNT
                  /\ root_directory'[FindFile(last.name)'].size_file = 0
                  /\ root_directory'[FindFile(last.name)'].idx_first_data_blk = FAT_EOC]_vars

\* C6 -- whenever every root-directory slot is occupied, fs_create of a valid
\* new name returns -1 and changes no state (no entry is written past the
\* last slot).
DirFull == \A x \in DirSlots : Occupied(x)
C6_DirFull ==
  (Running /\ DirFull) =>
    \A name \in ValidNames :
      FindFile(name) >= FS_FILE_MAX_COUNT => CreateRefused(name)

\* C7 -- on a valid handle fs_write returns less than count only if, on
\* return, no FAT entry with index in [1, amt_data_blks) equals 0.  Stated
\* for handles on named files while FAT entry 0 holds FAT_EOC and no file
\* starts at data block 0.
Fat0Reserved ==
  /\ FatAt(fat, 0) = FAT_EOC
  /\ \A x \in DirSlots : Occupied(x) => root_directory[x].idx_first_data_blk # 0
NamedFileHandle(fd) ==
  /\ Running
  /\ IsOpenFd(fd)
  /\ FD[FindFd(fd)].idx_file_root_dir \in DirSlots
  /\ Occupied(FD[FindFd(fd)].idx_file_root_dir)
C7_ShortOnlyWhenFull ==
  \A fd \in 1..FS_OPEN_MAX_COUNT, seed \in 1..NumBufs, count \in 0..MaxCount :
    (NamedFileHandle(fd) /\ Fat0Reserved) =>
      LET r == WriteResult(fd, seed, count, 0) IN
      (r.status = "ok" /\ r.ret < count)
        => \A v \in 1..(superblock.amt_data_blks - 1) : FatAt(r.fat, v) # 0
\* Scenario S5 starts from a fresh disk with amt_data_blks = 2, mounted, with
\* a handle at offset 0 on a newly created file.
S5Start(fd) ==
  /\ EmptyFileHandle(fd)
  /\ superblock.amt_data_blks = 2
  /\ fat = FormattedDisk(2).fat
  /\ num_avail_data_blks = 1
S5Counts == (BLOCK_SIZE + 1)..MaxCount
S5File(fd) == root_directory[FD[FindFd(fd)].idx_file_root_dir]

\* the state scenario S5 is in after its first write: the file is the one
\* usable block long, the cursor is still at 0 and no block is left
S5After(fd) ==
  /\ Running
  /\ IsOpenFd(fd)
  /\ superblock.amt_data_blks = 2
  /\ FD[FindFd(fd)].idx_file_root_dir \in DirSlots
  /\ Occupied(FD[FindFd(fd)].idx_file_root_dir)
  /\ S5File(fd).size_file = BLOCK_SIZE
  /\ S5File(fd).idx_first_data_blk = 1
  /\ FD[FindFd(fd)].file_offset = 0
  /\ fat = FatSet(FormattedDisk(2).fat, 1, FAT_EOC)
  /\ num_avail_data_blks = 0

\* C8 as the specification states it -- scenario S5: the write of more than
\* BLOCK_SIZE bytes returns BLOCK_SIZE and leaves size_file = BLOCK_SIZE, and
\* a subsequent write through the same handle (offset still 0) returns 0.
C8_S5_SecondWriteZero ==
  [][\A fd \in 1..FS_OPEN_MAX_COUNT :
       /\ \A seed \in 1..NumBufs, k \in S5Counts :
            (Step("write") /\ S5Start(fd) /\ fs_write(fd, seed, k))
              => (fault' = "none" /\ last'.ret = BLOCK_SIZE /\ S5After(fd)')
       /\ S5After(fd)
            => \A seed2 \in 1..NumBufs, k2 \in 1..MaxCount :
                 WriteResult(fd, seed2, k2, 0).ret = 0]_vars

\* C8 amended -- scenario S5: the write of more than BLOCK_SIZE bytes returns
\* BLOCK_SIZE and leaves size_file = BLOCK_SIZE; a subsequent write of k2
\* bytes through the same handle, whose offset is still 0, overwrites the one
\* block of the file and returns min(k2, BLOCK_SIZE), leaving size_file alone.
C8_S5_SecondWriteOverwrites ==
  [][\A fd \in 1..FS_OPEN_MAX_COUNT :
       /\ \A seed \in 1..NumBufs, k \in S5Counts :
            (Step("write") /\ S5Start(fd) /\ fs_write(fd, seed, k))
              => (fault' = "none" /\ last'.ret = BLOCK_SIZE /\ S5After(fd)')
       /\ S5After(fd)
            => \A seed2 \in 1..NumBufs, k2 \in 1..MaxCount :
                 /\ WriteResult(fd, seed2, k2, 0).status = "ok"
                 /\ WriteResult(fd, seed2, k2, 0).ret = Min(k2, BLOCK_SIZE)
                 /\ WriteResult(fd, seed2, k2, 0).size = BLOCK_SIZE]_vars
\* the state after the first write of S5, where a second write returns BLOCK_SIZE
C8_S5_Witness ==
  /\ fault = "none" /\ fs_mounted = 1
  /\ superblock.amt_data_blks = 2
  /\ last.op = "write" /\ last.count \in S5Counts /\ last.ret = BLOCK_SIZE
  /\ IsOpenFd(last.fd)
  /\ FD[FindFd(last.fd)].file_offset = 0
  /\ Occupied(FD[FindFd(last.fd)].idx_file_root_dir)
  /\ S5After(last.fd)
  /\ left > 0
  /\ WriteResult(last.fd, 1, BLOCK_SIZE + 1, 0).ret = BLOCK_SIZE

\* C9 -- fs_write never moves a cursor: across every call of fs_write the
\* file_offset of every handle-table slot is the same after the call as before.
C9_WriteKeepsCursors ==
  [][(Step("write") /\ \E fd \in FdArgs, seed \in 0..NumBufs, count \in 0..MaxCount :
                          fs_write(fd, seed, count))
       => \A i \in FdSlots : FD'[i].file_offset = FD[i].file_offset]_vars
\* a write that stored bytes through a handle whose cursor is still in front of them
C9_Witness ==
  /\ fault = "none" /\ fs_mounted = 1
  /\ last.op = "write" /\ last.ret > 0
  /\ IsOpenFd(last.fd)
  /\ FD[FindFd(last.fd)].file_offset + last.ret
       <= S5File(last.fd).size_file
  /\ FD[FindFd(last.fd)].file_offset = 0

\* C10 -- persistence: every successful fs_create, fs_delete and fs_write
\* leaves the FAT blocks, the root-directory block and the data blocks on disk
\* equal to the in-memory state, so that a remount loads the same FAT and
\* root directory and a read of the written file finds the bytes written.
Mutated ==
  /\ fault = "none" /\ fault' = "none"
  /\ left' < left
  /\ last'.op \in {"create", "delete", "write"}
  /\ last'.ret >= 0
C10_PersistsAcrossRemount ==
  [][/\ Mutated => (disk'.fat = fat' /\ disk'.root = root_directory')
     /\ \A fd \in 1..FS_OPEN_MAX_COUNT, seed \in 1..NumBufs, count \in 0..MaxCount :
          (Mutated /\ Step("write") /\ fs_write(fd, seed, count))
            => \A chain \in {WriteResult(fd, seed, count, 0).chain},
                  arr \in {WriteResult(fd, seed, count, 0).arr}, g \in Byte :
                 ReadBlocks(chain, g)' = arr]_vars
\* the bytes of the file in slot x: its data blocks along the FAT chain, cut
\* at size_file
FileBytes(x) ==
  LET all == ReadBlocks(Chain(fat, root_directory[x].idx_first_data_blk), 0) IN
  SubSeq(all, 1, Min(Len(all), root_directory[x].size_file))
\* what fs_read(fd, buf, count) has to return and copy on a named file
ReadAsSpecified(fd, count) ==
  LET i == FindFd(fd)
      x == FD[i].idx_file_root_dir
      offset == FD[i].file_offset
      eff == Min(count, root_directory[x].size_file - offset)
  IN \A g \in Byte :
       LET r == ReadResult(fd, TRUE, count, g) IN
       /\ r.status = "ok"
       /\ r.ret = eff
       /\ r.out = SubSeq(FileBytes(x), offset + 1, offset + eff)

\* C11 -- fs_read on a valid handle returns eff = min(count, size_file -
\* offset), copies the file bytes [offset, offset + eff), advances the offset
\* of that handle by eff and changes nothing else; with the offset at
\* size_file every read returns 0.  Stated for handles on named files whose
\* cursor is inside the file.
CursorInFile(fd) == FD[FindFd(fd)].file_offset <= S5File(fd).size_file
C11_ReadSemantics ==
  [][\A fd \in 1..FS_OPEN_MAX_COUNT, count \in 0..MaxCount :
       (NamedFileHandle(fd) /\ CursorInFile(fd))
         => /\ ReadAsSpecified(fd, count)
            /\ (Step("read") /\ fs_read(fd, TRUE, count))
                 => /\ FD' = [FD EXCEPT ![FindFd(fd)].file_offset =
                                 @ + Min(count, S5File(fd).size_file - @)]
                    /\ UNCHANGED <<disk, disk_open, superblock, fat, root_directory,
                                   num_open_fds, fs_mounted, fault>>]_vars
\* C12 -- NOT_MOUNTED: whenever the filesystem is not mounted (before the
\* first mount, after a mount that failed, after a successful umount), every
\* operation other than fs_mount returns -1; such a call changes no state.
C12_NotMounted ==
  (fault = "none" /\ fs_mounted = 0) =>
    /\ UmountRefused
    /\ InfoRet = -1
    /\ LsRet = -1
    /\ \A name \in Names :
         CreateRefused(name) /\ DeleteRefused(name) /\ OpenRefused(name)
    /\ \A fd \in FdArgs :
         /\ FdRefused(fd)
         /\ \A g \in Garbage : StatValue(fd, g) = -1
         /\ \A g \in Garbage, offset \in 0..MaxCount : LseekRefused(fd, offset, g)
         /\ \A count \in 0..MaxCount :
              /\ ReadResult(fd, TRUE, count, 0).status = "refused"
              /\ ReadResult(fd, TRUE, count, 0).ret = -1
              /\ \A seed \in 0..NumBufs :
                   /\ WriteResult(fd, seed, count, 0).status = "refused"
                   /\ WriteResult(fd, seed, count, 0).ret = -1
\* C13 -- TOO_MANY_OPEN: fs_open returns -1 and changes no state whenever all
\* handle-table slots are in use; otherwise a successful fs_open returns
\* slot_index + 1 of a slot that was free, inside the table, with offset 0,
\* and leaves the other slots alone (so two opens give distinct descriptors).
AllSlotsInUse == \A i \in FdSlots : FD[i].file_descriptor # 0
C13_TooManyOpen ==
  [][\A name \in Names :
       Running =>
         IF AllSlotsInUse
         THEN OpenRefused(name)
         ELSE (Step("open") /\ fs_open(name))
                => /\ fault' = "none"
                   /\ last'.ret \in 1..FS_OPEN_MAX_COUNT
                   /\ FD[last'.ret - 1].file_descriptor = 0
                   /\ FD' = [FD EXCEPT ![last'.ret - 1] =
                               [idx_file_root_dir |-> FindFile(name),
                                file_descriptor |-> last'.ret,
                                file_offset |-> 0]]]_vars
\* an offset argument above every file size whose (int) cast is negative
HugeOffset == 2^IntBits - 1
LseekOffsets == 0..MaxCount \cup {HugeOffset}

\* C14 -- cursor bound: every open handle has 0 <= file_offset <= size_file
\* of its directory entry; fs_lseek(fd, offset) returns -1 without changing
\* the cursor when offset > size_file, and returns 0 setting the cursor to
\* offset when offset <= size_file.
C14_CursorBound ==
  [][/\ Running =>
          \A i \in FdSlots :
            (FD[i].file_descriptor # 0 /\ FD[i].idx_file_root_dir \in DirSlots)
              => /\ 0 <= FD[i].file_offset
                 /\ FD[i].file_offset <= root_directory[FD[i].idx_file_root_dir].size_file
     /\ \A fd \in 1..FS_OPEN_MAX_COUNT, offset \in LseekOffsets :
          NamedFileHandle(fd) =>
            IF offset > S5File(fd).size_file
            THEN \A g \in Garbage : LseekRefused(fd, offset, g)
            ELSE /\ \A g \in Garbage : ~LseekRefused(fd, offset, g)
                 /\ (Step("lseek") /\ fs_lseek(fd, offset))
                      => FD' = [FD EXCEPT ![FindFd(fd)].file_offset = offset]]_vars
\* C15 -- FAT entry 0 is FAT_EOC in every reachable mounted state, and data
\* block 0 is never allocated to a file.
C15_Fat0Reserved ==
  Running => Fat0Reserved
\* the walk from j meets FAT_EOC without visiting an index twice or an entry
\* equal to 0
WellFormedChain(j) ==
  LET ch == Chain(fat, j) IN
  /\ ~ChainLoops(fat, j)
  /\ \A a, b \in 1..Len(ch) : ch[a] = ch[b] => a = b
  /\ \A a \in 1..Len(ch) : FatAt(fat, ch[a]) # 0
Files == {x \in DirSlots : Occupied(x)}

\* C16 -- FAT chains stay well-formed: for every occupied directory entry
\* with idx_first_data_blk # FAT_EOC the walk of the FAT from it reaches
\* FAT_EOC without visiting an index twice and without reaching a 0 entry.
C16_ChainsWellFormed ==
  Running =>
    \A x \in Files :
      root_directory[x].idx_first_data_blk # FAT_EOC
        => WellFormedChain(root_directory[x].idx_first_data_blk)
\* the FAT indices of the chain of the file in slot x
ChainOf(x) == Chain(fat, root_directory[x].idx_first_data_blk)
InChain(v, x) == \E a \in 1..Len(ChainOf(x)) : ChainOf(x)[a] = v
RECURSIVE SumChains(_)
SumChains(x) ==
  IF x >= FS_FILE_MAX_COUNT THEN 0
  ELSE (IF Occupied(x) THEN Len(ChainOf(x)) ELSE 0) + SumChains(x + 1)

\* C17 -- block conservation: each non-zero FAT entry with index in
\* [1, amt_data_blks) belongs to the chain of exactly one occupied directory
\* entry, and the free count fs_info prints equals amt_data_blks - 1 minus
\* the sum of the chain lengths of all files.  Stated while FAT entry 0
\* holds FAT_EOC and no file starts at data block 0.
C17_BlockConservation ==
  (Running /\ Fat0Reserved) =>
    /\ \A v \in 1..(superblock.amt_data_blks - 1) :
         FatAt(fat, v) # 0 => Cardinality({x \in Files : InChain(v, x)}) = 1
    /\ InfoFatFree = superblock.amt_data_blks - 1 - SumChains(0)
DataRegion == 1..(superblock.amt_data_blks - 1)
FatIndices == 0..(FatSize(fat) - 1)
\* the FAT entries a step turns from 0 into something else
Allocated == {v \in FatIndices : FatAt(fat, v) = 0 /\ FatAt(fat', v) # 0}

\* C18 -- allocation stays inside the data region: every block fs_write
\* allocates is the lowest-indexed FAT entry equal to 0, with index in
\* 1..amt_data_blks-1; every idx_first_data_blk and every FAT link is FAT_EOC
\* or in 1..amt_data_blks-1.  Stated while FAT entry 0 holds FAT_EOC and no
\* file starts at data block 0.
C18_AllocationInRegion ==
  [][(Running /\ Fat0Reserved) =>
       /\ \A x \in Files :
            root_directory[x].idx_first_data_blk \in DataRegion \cup {FAT_EOC}
       /\ \A v \in FatIndices \ {0} :
            FatAt(fat, v) \in DataRegion \cup {0, FAT_EOC}
       /\ Step("write") =>
            \A v \in Allocated :
              /\ v \in DataRegion
              /\ \A u \in DataRegion : (u < v /\ FatAt(fat, u) = 0) => u \in Allocated]_vars
\* C19 -- fs_write terminates: in every mounted state, for every valid handle
\* and every count, the call returns, also when the free blocks lie past the
\* first FAT block.  (An iteration of the outer loop that neither writes a
\* byte, allocates a block nor exits leaves every variable of the loop as it
\* was, so the loop repeats it for ever: WriteLoop reports that case.)
C19_WriteTerminates ==
  \A fd \in 1..FS_OPEN_MAX_COUNT, seed \in 1..NumBufs, count \in 0..MaxCount :
    NamedFileHandle(fd)
      => WriteResult(fd, seed, count, 0).status # "fs_write never returns"
\* C20 -- size and chain agree: for every occupied directory entry the chain
\* rooted at idx_first_data_blk has ceil(size_file / BLOCK_SIZE) blocks, and
\* idx_first_data_blk = FAT_EOC iff size_file = 0.
C20_SizeAndChainAgree ==
  Running =>
    \A x \in Files :
      /\ Len(ChainOf(x)) = CeilDiv(root_directory[x].size_file, BLOCK_SIZE)
      /\ root_directory[x].idx_first_data_blk = FAT_EOC
           <=> root_directory[x].size_file = 0
\* C21 -- handles reference live files: in every mounted state every open
\* handle's idx_file_root_dir is a directory index naming an occupied slot;
\* fs_open returns -1 for the empty name and for a name no occupied slot
\* holds; and a slot does not become free while a handle references it.
HeldByOccupiedSlot(name) ==
  \E x \in DirSlots :
    Occupied(x) /\ FindFile(name) = x
C21_HandlesReferenceLiveFiles ==
  [][Running =>
       /\ \A i \in FdSlots :
            FD[i].file_descriptor # 0 =>
              /\ FD[i].idx_file_root_dir \in DirSlots
              /\ Occupied(FD[i].idx_file_root_dir)
       /\ OpenRefused(<<>>)
       /\ \A name \in Names : ~HeldByOccupiedSlot(name) => OpenRefused(name)
       /\ \A x \in DirSlots :
            (Occupied(x) /\ HandleOn(x) /\ Running' /\ ~Step("mount"))
              => Occupied(x)']_vars
====
